---- MODULE Spec2Model ----
(***************************************************************************)
(* Chat-turn orchestration of the conversational BI backend:               *)
(* ChatService.handle_inquiry, load_chat_history, chat_runtime_cleanup and *)
(* delete_chat_history over the shared application state and the durable   *)
(* CHAT_MESSAGES / USER_CHATS tables.                                      *)
(*                                                                         *)
(* Every handler is one atomic action: a request is processed              *)
(* synchronously from entry to `return`.  The language model, the database *)
(* and the object storage are collaborators whose answers (a reply, a      *)
(* result set, an exception) are the inputs of the action.                 *)
(*                                                                         *)
(* Texts are strings.  A Python dict is a function whose DOMAIN is its key *)
(* set.  Python None is the string None (no text of the model equals it).  *)
(*                                                                         *)
(* UnitSpec calls the components of the service on their own: the         *)
(* database client (OracleADBClient), the response extractor              *)
(* (LLMResponseExtractor) over the text of a model output, and            *)
(* create_new_chat.                                                        *)
(*                                                                         *)
(* ConcSpec runs two chat-inquiry requests at the same time on the shared  *)
(* service and application state, each as a sequence of steps.             *)
(***************************************************************************)
EXTENDS Integers, Sequences, FiniteSets, TLC

VARIABLES
    state_attrs,      \* names of the attributes the app_state object carries
    pg_kind,          \* which prompt generator the service holds
    chat_history,     \* app_state.chat_history     : chat id -> message log
    last_sql_query,   \* app_state.last_sql_query   : chat id -> SQL
    last_sql_queries, \* app_state.last_sql_queries : chat id -> SQL or None
    last_chat_id,     \* app_state.last_chat_id
    user_chats,       \* app_state.user_chats       : user id -> list of chat ids
    CHAT_MESSAGES,    \* durable message rows
    USER_CHATS,       \* durable chat preview rows
    ret,              \* payload returned by the most recent call
    trace,            \* what the most recent call did
    n_calls,          \* number of calls served so far
    extractor_data,   \* LLMResponseExtractor.data, or that it is not set
    unit,             \* the most recent call of a component on its own
    turns             \* the chat-inquiry requests in flight, one per worker thread

vars == <<state_attrs, pg_kind, chat_history, last_sql_query, last_sql_queries,
          last_chat_id, user_chats, CHAT_MESSAGES, USER_CHATS, ret, trace, n_calls,
          extractor_data, unit, turns>>

-----------------------------------------------------------------------------
(* Bounds of the model *)

MaxDbTurns == 2      \* turns already persisted per chat at start
MaxCalls == 3        \* number of calls explored
MaxSegs == 3         \* pieces a model output is made of

-----------------------------------------------------------------------------
(* Python helpers *)

None == "None"

Put(m, k, v) == [x \in (DOMAIN m) \cup {k} |-> IF x = k THEN v ELSE m[x]]

Del(m, k) == [x \in (DOMAIN m) \ {k} |-> m[x]]

EmptyDict == [x \in {} |-> None]

\* dict.get(key, default)
Get(data, key, default) == IF key \in DOMAIN data THEN data[key] ELSE default

\* truth value of a dict: empty is falsy
Truthy(d) == DOMAIN d # {}

\* truth value of a string or None
TruthyStr(s) == s # "" /\ s # None

Min(a, b) == IF a <= b THEN a ELSE b

-----------------------------------------------------------------------------
(* Inputs *)

ChatIds == {"c1", "c2"}
UserIds == {"u1"}
UserMessages == {"q1"}
SqlTexts == {"s1", "s2"}

\* tables that have a table_metadata/<table>.json file
MetadataTables == {"t_sales"}

\* result sets: a sequence of rows, a row a sequence of cells; a cell is
\* null or a number
NaN == [isna |-> TRUE, v |-> 0]
Num(n) == [isna |-> FALSE, v |-> n]
\* a result set with more rows than a raw-data response shows
LongFrame == [i \in 1..11 |-> <<Num(7)>>]

DataFrames ==
    { <<>>,                          \* no rows
      << <<NaN>> >>,                 \* all null
      << <<Num(0)>> >>,              \* all zero
      << <<NaN>>, <<Num(0)>> >>,     \* null and zero
      LongFrame,                     \* non-zero
      << <<Num(0)>>, <<Num(7)>> >> } \* zero and non-zero

\* what re-executing a persisted SQL artifact returns
ReexecutedFrames == { <<>>, << <<Num(7)>> >> }

\* a collaborator call that raises
Raises == [raises |-> TRUE, text |-> "", parsable |-> FALSE, json |-> EmptyDict]

\* a model reply: its text and the JSON object embedded in it, if any
Reply(text, obj) == [raises |-> FALSE, text |-> text, parsable |-> TRUE, json |-> obj]
Prose(text) == [raises |-> FALSE, text |-> text, parsable |-> FALSE, json |-> EmptyDict]

GuardrailReplies ==
    { Reply("g_yes", [relevant_question |-> "yes", tables_related |-> <<"t_sales">>]),
      Reply("g_yes_unknown_table", [relevant_question |-> "yes", tables_related |-> <<"t_other">>]),
      Reply("g_no", [relevant_question |-> "no", tables_related |-> <<>>]),
      Reply("g_Yes", [relevant_question |-> "Yes", tables_related |-> <<"t_sales">>]),
      Reply("g_noflag", [tables_related |-> <<"t_sales">>]),
      Prose("g_prose"),
      Raises }

Text2SqlReplies ==
    { Reply("t_s1", [sql_query |-> "s1", scenario |-> "summary", error_status |-> "int:0"]),
      Reply("t_s2_raw", [sql_query |-> "s2", scenario |-> "raw_data", error_status |-> "int:0"]),
      Reply("t_s1_noflag", [sql_query |-> "s1", scenario |-> "summary"]),
      Reply("t_err_int", [sql_query |-> "", scenario |-> "", error_status |-> "int:1"]),
      Reply("t_err_str", [sql_query |-> "", scenario |-> "", error_status |-> "str:1"]),
      Reply("t_flag_two", [sql_query |-> "s1", scenario |-> "summary", error_status |-> "int:2"]),
      Prose("t_prose"),
      Raises }

ExplanationReplies ==
    { Reply("e_m1", [scenario |-> "summary", message |-> "m1"]),
      Reply("e_nomsg", [scenario |-> "summary"]),
      Prose("e_prose"),
      Raises }

-----------------------------------------------------------------------------
(* Response extractor *)

\* extract_json: the JSON object found in the text, or an exception
extract_json_raises(reply) == ~reply.parsable

extract_json(reply) == reply.json

-----------------------------------------------------------------------------
(* Prompt generator *)

main_prompt == "chatbot_start"

SystemInit == [role |-> "Assistant", message |-> main_prompt]

PromptFullLimit == 25
PromptSampleRows == 10

head(df, n) == SubSeq(df, 1, Min(n, Len(df)))

\* number of parameters of generate_assistant_prompt
AssistantPromptParams == 2

generate_assistant_prompt(sql_query, df) ==
    LET num_records == Len(df)
        input_df == IF num_records <= PromptFullLimit THEN df ELSE head(df, PromptSampleRows)
    IN  "chatbot_assistant:" \o sql_query \o ":" \o ToString(input_df)
            \o ":" \o ToString(num_records)

\* the call at handle_inquiry passes (sql_query, selected_df, scenario)
AssistantPromptArgs == 3

\* a call raises TypeError when the real generator gets more arguments than
\* it has parameters; a test double accepts any call
AssistantPromptCallRaises ==
    pg_kind = "PromptGenerator" /\ AssistantPromptArgs # AssistantPromptParams

-----------------------------------------------------------------------------
(* chat_service.py helpers *)

\* a table without a metadata file is skipped
prepare_metadata_skips(tables) == FALSE

\* prepare_metadata_string raises when a named table has no metadata file
prepare_metadata_raises(tables) ==
    \E i \in 1..Len(tables) : tables[i] \notin MetadataTables

\* .any().any() in place of .all().all()
check_if_df_any_null_or_zero(df) ==
    \E i \in 1..Len(df) : \E j \in 1..Len(df[i]) :
        df[i][j].isna \/ (~df[i][j].isna /\ df[i][j].v = 0)

\* (df.isna() | (df == 0)).all().all()
check_if_df_all_null_or_zero(df) ==
    \A i \in 1..Len(df) : \A j \in 1..Len(df[i]) :
        df[i][j].isna \/ (~df[i][j].isna /\ df[i][j].v = 0)

\* DataFrame.empty
df_empty(df) == Len(df) = 0

\* a comparison that ignores case
GuardrailRejectsIgnoringCase(relevant) == relevant \notin {"yes", "Yes"}

\* if relevant != "yes"
GuardrailRejects(relevant) == relevant # "yes"

\* only the string form of the flag is recognised
SqlGenerationFailedStringOnly(error_status) == error_status = "str:1"

\* if error_status == 1 or error_status == "1"
SqlGenerationFailed(error_status) ==
    error_status = "int:1" \/ error_status = "str:1"

\* only the row count is tested
ResultIsEmptyRowsOnly(df) == df_empty(df)

\* if selected_df.empty or df_is_empty
ResultIsEmpty(df) == df_empty(df) \/ check_if_df_all_null_or_zero(df)

InitialResponse(chat_id) ==
    [chat_id |-> chat_id, llm_response |-> "Failed due to error",
     user_query |-> "", status |-> 0]

\* except JumpToFinally: any other exception leaves the handler
ExceptJumpToFinallyOnly(final_response, chat_id, e) ==
    IF e = "JumpToFinally" THEN final_response ELSE [exception |-> e]

\* except Exception as e: if not final_response: ...
ExceptHandler(final_response, chat_id, e) ==
    IF ~Truthy(final_response)
    THEN [chat_id |-> chat_id, llm_response |-> "Failed due to error " \o e,
          user_query |-> e, status |-> 0]
    ELSE final_response

\* text of an exception raised by a collaborator or by the interpreter
Exceptions == {"InferenceError", "JSONDecodeError", "FileNotFoundError",
               "AttributeError", "KeyError", "TypeError",
               "DatabaseError", "UploadError"}

-----------------------------------------------------------------------------
(* ChatService.handle_inquiry *)

\* local variables of one turn; ch, lsq, lsqs, lcid are the shared maps as
\* the turn has changed them so far
Locals(chat_id, user_message) ==
    [chat_id |-> chat_id, user_message |-> user_message,
     final_response |-> InitialResponse(chat_id),
     calls |-> <<>>, raised |-> "", relevant |-> "", tables |-> <<>>,
     prior_sql |-> "", sql_query |-> "", scenario |-> "", error_status |-> "",
     executed |-> FALSE, df |-> <<>>, appended |-> FALSE, sent |-> <<>>,
     message |-> "",
     ch |-> chat_history, lsq |-> last_sql_query, lsqs |-> last_sql_queries,
     lcid |-> last_chat_id]

TraceOf(s) ==
    [op |-> "handle_inquiry", chat_id |-> s.chat_id, user_id |-> "",
     user_message |-> s.user_message, calls |-> s.calls, raised |-> s.raised,
     relevant |-> s.relevant, tables |-> s.tables, prior_sql |-> s.prior_sql,
     sql_query |-> s.sql_query, scenario |-> s.scenario,
     error_status |-> s.error_status, executed |-> s.executed, df |-> s.df,
     appended |-> s.appended, sent |-> s.sent, message |-> s.message,
     chat_ids |-> <<>>]

\* return final_response
Return(s) ==
    /\ ret' = s.final_response
    /\ trace' = TraceOf(s)
    /\ chat_history' = s.ch
    /\ last_sql_query' = s.lsq
    /\ last_sql_queries' = s.lsqs
    /\ last_chat_id' = s.lcid
    /\ UNCHANGED <<state_attrs, pg_kind, user_chats, CHAT_MESSAGES, USER_CHATS>>

\* an exception e leaves the try block
HandleRaise(s, e) ==
    Return([s EXCEPT !.final_response = ExceptHandler(@, s.chat_id, e),
                     !.raised = e])

\* the generated SQL is stored before the turn leaves
JumpToFinallyStoringSql(s, payload) ==
    Return([s EXCEPT !.final_response = ExceptHandler(payload, s.chat_id, "JumpToFinally"),
                     !.raised = "JumpToFinally",
                     !.lsq = Put(@, s.chat_id, s.sql_query)])

\* final_response = payload; raise JumpToFinally()
JumpToFinally(s, payload) ==
    Return([s EXCEPT !.final_response = ExceptHandler(payload, s.chat_id, "JumpToFinally"),
                     !.raised = "JumpToFinally"])

prepare_analysis_response(selected_df, scenario, sql_query, message) ==
    [results_df |-> selected_df, scenario |-> scenario, llm_response |-> message,
     diagram |-> None, sql_query |-> sql_query, status |-> 1]

RawDataRows == 10

prepare_raw_data_response(selected_df, scenario, sql_query, message) ==
    [results_df |-> head(selected_df, RawDataRows), file_path |-> "property_sales.csv",
     scenario |-> scenario, llm_response |-> message, sql_query |-> sql_query,
     status |-> 1]

\* "Result Modification": the upload or the file handling may raise
ResponseShaping(s) ==
    \/ HandleRaise(s, "UploadError")
    \/ Return([s EXCEPT !.final_response =
                 IF s.scenario = "raw_data"
                 THEN prepare_raw_data_response(s.df, s.scenario, s.sql_query, s.message)
                 ELSE prepare_analysis_response(s.df, s.scenario, s.sql_query, s.message)])

\* the model output is appended and the explanation request stays
KeepTransient(log, result) ==
    Append(log, [role |-> "System", message |-> result])

\* chat_history[chat_id].pop(); chat_history[chat_id].append({"role":"System", ...})
ReplaceTransient(log, result) ==
    Append(SubSeq(log, 1, Len(log) - 1), [role |-> "System", message |-> result])

\* "Main Call Inference"
Explanation(s) ==
    IF AssistantPromptCallRaises THEN HandleRaise(s, "TypeError")
    ELSE IF s.chat_id \notin DOMAIN s.ch THEN HandleRaise(s, "KeyError")
    ELSE LET assistant_prompt == generate_assistant_prompt(s.sql_query, s.df)
             log1 == s.ch[s.chat_id] \o <<[role |-> "User", message |-> s.user_message],
                                          [role |-> "Assistant", message |-> assistant_prompt]>>
             s1 == [s EXCEPT !.ch = Put(@, s.chat_id, log1), !.appended = TRUE,
                             !.sent = log1, !.calls = Append(@, "explain")]
         IN \E r \in ExplanationReplies :
              IF r.raises THEN HandleRaise(s1, "InferenceError")
              ELSE LET log2 == ReplaceTransient(log1, r.text)
                       s2 == [s1 EXCEPT !.ch = Put(@, s.chat_id, log2)]
                   IN IF extract_json_raises(r) THEN HandleRaise(s2, "JSONDecodeError")
                      ELSE ResponseShaping(
                             [s2 EXCEPT !.message = Get(extract_json(r), "message", "")])

\* "Context management"
HistoryReconciliation(s) ==
    IF "last_sql_query" \notin state_attrs THEN HandleRaise(s, "AttributeError")
    ELSE LET s1 == [s EXCEPT !.lsq = Put(@, s.chat_id, s.sql_query)] IN
    IF "chat_history" \notin state_attrs \/ "last_chat_id" \notin state_attrs
    THEN HandleRaise(s1, "AttributeError")
    ELSE IF s1.lcid = s1.chat_id THEN Explanation(s1)
    ELSE LET s2 == [s1 EXCEPT !.ch = Put(@, s.chat_id, <<SystemInit>>)] IN
         IF TruthyStr(s2.lcid) /\ s2.lcid \in DOMAIN s2.ch
         THEN LET s3 == [s2 EXCEPT !.ch = Del(@, s2.lcid)] IN
              IF s3.lcid \notin DOMAIN s3.lsqs THEN HandleRaise(s3, "KeyError")
              ELSE Explanation([s3 EXCEPT !.lsqs = Del(@, s3.lcid), !.lcid = s.chat_id])
         ELSE Explanation([s2 EXCEPT !.lcid = s.chat_id])

\* the payload of a turn whose result set is empty, with the key of the
\* rejection payloads
NoDataResponseWithUserQuery(chat_id, sql_query) ==
    [chat_id |-> chat_id, llm_response |-> "No data found for following search",
     user_query |-> sql_query, status |-> 3]

\* the payload of a turn whose result set is empty
NoDataResponse(chat_id, sql_query) ==
    [chat_id |-> chat_id, llm_response |-> "No data found for following search",
     sql_query |-> sql_query, status |-> 3]

\* "SQL Against Database" and the empty check
Execution(s) ==
    LET s1 == [s EXCEPT !.calls = Append(@, "execute")] IN
    \/ HandleRaise(s1, "DatabaseError")
    \/ \E selected_df \in DataFrames :
         LET s2 == [s1 EXCEPT !.executed = TRUE, !.df = selected_df] IN
         IF ResultIsEmpty(selected_df)
         THEN JumpToFinally(s2, NoDataResponse(s.chat_id, s.sql_query))
         ELSE HistoryReconciliation(s2)

\* "Text-2-SQL Call"
SqlGeneration(s) ==
    IF "last_sql_queries" \notin state_attrs THEN HandleRaise(s, "AttributeError")
    ELSE IF prepare_metadata_raises(s.tables) THEN HandleRaise(s, "FileNotFoundError")
    ELSE LET s1 == [s EXCEPT !.prior_sql = Get(s.lsqs, s.chat_id, None),
                             !.calls = Append(@, "text2sql")] IN
         \E r \in Text2SqlReplies :
           IF r.raises THEN HandleRaise(s1, "InferenceError")
           ELSE IF extract_json_raises(r) THEN HandleRaise(s1, "JSONDecodeError")
           ELSE LET data == extract_json(r)
                    s2 == [s1 EXCEPT !.sql_query = Get(data, "sql_query", ""),
                                     !.scenario = Get(data, "scenario", ""),
                                     !.error_status = Get(data, "error_status", "int:0")]
                IN IF SqlGenerationFailed(s2.error_status)
                   THEN JumpToFinally(s2, [chat_id |-> s.chat_id,
                          llm_response |-> "Failed to generate query as it extends beyond the scope of Data , Please try with another query.",
                          user_query |-> s.user_message, status |-> 2])
                   ELSE Execution(s2)

\* "Guard Rail Call"
Guardrail(s) ==
    LET s1 == [s EXCEPT !.calls = Append(@, "guardrail")] IN
    \E r \in GuardrailReplies :
      IF r.raises THEN HandleRaise(s1, "InferenceError")
      ELSE IF extract_json_raises(r) THEN HandleRaise(s1, "JSONDecodeError")
      ELSE LET data == extract_json(r)
               s2 == [s1 EXCEPT !.relevant = Get(data, "relevant_question", "no"),
                                !.tables = Get(data, "tables_related", <<>>)]
           IN IF GuardrailRejects(s2.relevant)
              THEN JumpToFinally(s2, [chat_id |-> s.chat_id,
                     llm_response |-> "Query rejected by guardrail due to irrelevance.",
                     user_query |-> s.user_message, status |-> 2])
              ELSE SqlGeneration(s2)

handle_inquiry ==
    \E chat_id \in ChatIds : \E user_message \in UserMessages :
        Guardrail(Locals(chat_id, user_message))

-----------------------------------------------------------------------------
(* Durable tables *)

\* rows of one chat, as SELECT ... WHERE chat_id = '<chat_id>' returns them
RowsOf(table, chat_id) == {r \in table : r.chat_id = chat_id}

RECURSIVE SortByMessageNo(_)
\* DataFrame.sort_values(by=["MESSAGE_NO"])
SortByMessageNo(rows) ==
    IF rows = {} THEN <<>>
    ELSE LET first == CHOOSE r \in rows : \A q \in rows : r.message_no <= q.message_no
         IN <<first>> \o SortByMessageNo(rows \ {first})

\* the three rows one persisted turn consists of (user message, model
\* explanation, SQL artifact), numbered from message_no
PersistedTurn(chat_id, message_no) ==
    { [chat_id |-> chat_id, message_no |-> message_no, role |-> "User", message |-> "q0"],
      [chat_id |-> chat_id, message_no |-> message_no + 1, role |-> "System", message |-> "e_m1"],
      [chat_id |-> chat_id, message_no |-> message_no + 2, role |-> "SQL",
       message |-> IF message_no = 0 THEN "s2" ELSE "s1"] }

\* chats whose turns were persisted without their SQL artifact
ChatsWithoutSql == {"c2"}

\* a chat with n persisted turns
PersistedChat(chat_id, n) ==
    {r \in UNION {PersistedTurn(chat_id, 3 * k) : k \in 0..(n - 1)} :
        chat_id \in ChatsWithoutSql => r.role # "SQL"}

\* upper(): the roles are ASCII words
upper(role) ==
    CASE role = "User" -> "USER"
      [] role = "System" -> "SYSTEM"
      [] role = "Assistant" -> "ASSISTANT"
      [] role = "SQL" -> "SQL"
      [] OTHER -> role

-----------------------------------------------------------------------------
(* The other handlers *)

BaseTrace(op, user_id, chat_id) ==
    [op |-> op, chat_id |-> chat_id, user_id |-> user_id,
     user_message |-> "", calls |-> <<>>, raised |-> "",
     relevant |-> "", tables |-> <<>>, prior_sql |-> "", sql_query |-> "",
     scenario |-> "", error_status |-> "", executed |-> FALSE, df |-> <<>>,
     appended |-> FALSE, sent |-> <<>>, message |-> "", chat_ids |-> <<>>]

\* the memory view with the SQL artifacts left in
chat_history_state_with_sql(sorted) ==
    <<SystemInit>> \o
    [i \in 1..Len(sorted) |-> [role |-> sorted[i].role, message |-> sorted[i].message]]

\* the memory view without the system-init message
chat_history_state_rows_only(sorted) ==
    SelectSeq([i \in 1..Len(sorted) |-> [role |-> sorted[i].role, message |-> sorted[i].message]],
              LAMBDA m : upper(m.role) # "SQL")

\* the memory view: every row that is not an SQL artifact, verbatim
chat_history_state(sorted) ==
    <<SystemInit>> \o
    SelectSeq([i \in 1..Len(sorted) |-> [role |-> sorted[i].role, message |-> sorted[i].message]],
              LAMBDA m : upper(m.role) # "SQL")

\* the front-end view: an SQL artifact carries the rows of its re-execution
chat_history_front_end(sorted, results) ==
    [i \in 1..Len(sorted) |->
        IF upper(sorted[i].role) = "SQL"
        THEN [role |-> sorted[i].role, message |-> "", records |-> results[sorted[i].message_no]]
        ELSE [role |-> sorted[i].role, message |-> sorted[i].message, records |-> <<>>]]

\* the role compared with 'sql' without .str.upper()
last_sql_message_case_sensitive(sorted) ==
    LET sql_rows == SelectSeq(sorted, LAMBDA r : r.role = "sql")
    IN IF Len(sql_rows) = 0 THEN None ELSE sql_rows[Len(sql_rows)].message

\* chat_history_df[ROLE.str.upper() == 'SQL'].tail(1)
last_sql_message(sorted) ==
    LET sql_rows == SelectSeq(sorted, LAMBDA r : upper(r.role) = "SQL")
    IN IF Len(sql_rows) = 0 THEN None ELSE sql_rows[Len(sql_rows)].message

\* no emptiness test on the loaded rows
HistoryIsNeverEmpty(rows) == FALSE

\* chat_history_df.empty
HistoryIsEmpty(rows) == rows = {}

load_chat_history ==
    \E user_id \in UserIds : \E chat_id \in ChatIds :
      LET rows == RowsOf(CHAT_MESSAGES, chat_id)
          sorted == SortByMessageNo(rows)
          sql_nos == {r.message_no : r \in {q \in rows : upper(q.role) = "SQL"}}
          Failed(e) == [chat_id |-> chat_id, error_message |-> e, status |-> 0]
          t == BaseTrace("load_chat_history", user_id, chat_id)
      IN
      \/ \* the history query raises
         /\ ret' = Failed("DatabaseError")
         /\ trace' = [t EXCEPT !.raised = "DatabaseError"]
         /\ UNCHANGED <<state_attrs, pg_kind, chat_history, last_sql_query, last_sql_queries,
                        last_chat_id, user_chats, CHAT_MESSAGES, USER_CHATS>>
      \/ /\ HistoryIsEmpty(rows)
         /\ ret' = [chat_id |-> chat_id,
                    systen_message |-> "No chat history found for chat_id {chat_id}",
                    status |-> 0]
         /\ trace' = t
         /\ UNCHANGED <<state_attrs, pg_kind, chat_history, last_sql_query, last_sql_queries,
                        last_chat_id, user_chats, CHAT_MESSAGES, USER_CHATS>>
      \/ \* the re-execution of an SQL artifact raises
         /\ sql_nos # {}
         /\ ret' = Failed("DatabaseError")
         /\ trace' = [t EXCEPT !.raised = "DatabaseError"]
         /\ UNCHANGED <<state_attrs, pg_kind, chat_history, last_sql_query, last_sql_queries,
                        last_chat_id, user_chats, CHAT_MESSAGES, USER_CHATS>>
      \/ /\ ~HistoryIsEmpty(rows)
         /\ \E results \in [sql_nos -> ReexecutedFrames] :
              LET ch == Put(chat_history, chat_id, chat_history_state(sorted))
                  lsqs == Put(last_sql_queries, chat_id, last_sql_message(sorted))
                  e == IF "chat_history" \notin state_attrs
                          \/ "last_sql_queries" \notin state_attrs
                          \/ "user_chats" \notin state_attrs
                       THEN "AttributeError" ELSE ""
              IN /\ chat_history' = IF "chat_history" \in state_attrs THEN ch ELSE chat_history
                 /\ last_sql_queries' =
                      IF {"chat_history", "last_sql_queries"} \subseteq state_attrs
                      THEN lsqs ELSE last_sql_queries
                 /\ user_chats' = IF e = "" THEN Put(user_chats, user_id, <<chat_id>>)
                                  ELSE user_chats
                 /\ ret' = IF e = ""
                           THEN [chat_id |-> chat_id,
                                 system_response |-> chat_history_front_end(sorted, results),
                                 status |-> 1]
                           ELSE Failed(e)
                 /\ trace' = [t EXCEPT !.raised = e]
         /\ UNCHANGED <<state_attrs, pg_kind, last_sql_query, last_chat_id,
                        CHAT_MESSAGES, USER_CHATS>>

RECURSIVE CleanupLoop(_, _, _, _)
\* for chat_id in user_chat_ids: del chat_histories[chat_id]; del last_sql_queries[chat_id]
CleanupLoop(ids, i, ch, lsq) ==
    IF i > Len(ids) THEN [ch |-> ch, lsq |-> lsq, raised |-> ""]
    ELSE IF ids[i] \notin DOMAIN ch THEN [ch |-> ch, lsq |-> lsq, raised |-> "KeyError"]
    ELSE IF ids[i] \notin DOMAIN lsq
         THEN [ch |-> Del(ch, ids[i]), lsq |-> lsq, raised |-> "KeyError"]
    ELSE CleanupLoop(ids, i + 1, Del(ch, ids[i]), Del(lsq, ids[i]))

chat_runtime_cleanup ==
    \E user_id \in UserIds :
      LET t == BaseTrace("chat_runtime_cleanup", user_id, "") IN
      IF ~({"chat_history", "last_sql_query", "user_chats"} \subseteq state_attrs)
      THEN /\ ret' = [error_message |-> "AttributeError", status |-> 0]
           /\ trace' = [t EXCEPT !.raised = "AttributeError"]
           /\ UNCHANGED <<state_attrs, pg_kind, chat_history, last_sql_query, last_sql_queries,
                          last_chat_id, user_chats, CHAT_MESSAGES, USER_CHATS>>
      ELSE IF user_id \notin DOMAIN user_chats
      THEN /\ ret' = [status |-> 0,
                      message |-> "No chat history found for user " \o user_id \o " in state"]
           /\ trace' = t
           /\ UNCHANGED <<state_attrs, pg_kind, chat_history, last_sql_query, last_sql_queries,
                          last_chat_id, user_chats, CHAT_MESSAGES, USER_CHATS>>
      ELSE LET user_chat_ids == user_chats[user_id]
               out == CleanupLoop(user_chat_ids, 1, chat_history, last_sql_query)
           IN /\ chat_history' = out.ch
              /\ last_sql_query' = out.lsq
              /\ ret' = IF out.raised = ""
                        THEN [status |-> 1,
                              message |-> "Deleted " \o ToString(Len(user_chat_ids))
                                          \o " chat history for user " \o user_id]
                        ELSE [error_message |-> out.raised, status |-> 0]
              /\ trace' = [t EXCEPT !.raised = out.raised]
              /\ UNCHANGED <<state_attrs, pg_kind, last_sql_queries, last_chat_id,
                             user_chats, CHAT_MESSAGES, USER_CHATS>>

\* chat_ids of a deletion request: any chats, each once, in any order
ChatIdLists ==
    {l \in UNION {[1..n -> ChatIds] : n \in 0..Cardinality(ChatIds)} :
        \A i, j \in 1..Len(l) : l[i] = l[j] => i = j}

\* where a DELETE statement of the request fails, if one does
DeleteFailures ==
    {[at |-> 0, stmt |-> ""]} \cup
    {[at |-> i, stmt |-> q] : i \in 1..Cardinality(ChatIds),
                              q \in {"delete_chat_history", "delete_chat_preview"}}

RECURSIVE DeleteLoop(_, _, _, _, _, _, _)
\* for chat_id in chat_ids: the two DELETEs, then the two dels
DeleteLoop(ids, i, fail, msgs, previews, ch, lsqs) ==
    LET Out(m, p, c, l, e) == [msgs |-> m, previews |-> p, ch |-> c, lsqs |-> l, raised |-> e]
    IN
    IF i > Len(ids) THEN Out(msgs, previews, ch, lsqs, "")
    ELSE IF fail.at = i /\ fail.stmt = "delete_chat_history"
         THEN Out(msgs, previews, ch, lsqs, "DatabaseError")
    ELSE LET msgs1 == msgs \ RowsOf(msgs, ids[i]) IN
         IF fail.at = i /\ fail.stmt = "delete_chat_preview"
         THEN Out(msgs1, previews, ch, lsqs, "DatabaseError")
    ELSE LET previews1 == previews \ RowsOf(previews, ids[i]) IN
         IF "chat_history" \notin state_attrs
         THEN Out(msgs1, previews1, ch, lsqs, "AttributeError")
    ELSE IF ids[i] \notin DOMAIN ch THEN Out(msgs1, previews1, ch, lsqs, "KeyError")
    ELSE IF "last_sql_queries" \notin state_attrs
         THEN Out(msgs1, previews1, Del(ch, ids[i]), lsqs, "AttributeError")
    ELSE IF ids[i] \notin DOMAIN lsqs
         THEN Out(msgs1, previews1, Del(ch, ids[i]), lsqs, "KeyError")
    ELSE DeleteLoop(ids, i + 1, fail, msgs1, previews1, Del(ch, ids[i]), Del(lsqs, ids[i]))

delete_chat_history ==
    \E user_id \in UserIds : \E chat_ids \in ChatIdLists : \E fail \in DeleteFailures :
      /\ fail.at <= Len(chat_ids)
      /\ LET out == DeleteLoop(chat_ids, 1, fail, CHAT_MESSAGES, USER_CHATS,
                               chat_history, last_sql_queries)
         IN /\ CHAT_MESSAGES' = out.msgs
            /\ USER_CHATS' = out.previews
            /\ chat_history' = out.ch
            /\ last_sql_queries' = out.lsqs
            /\ ret' = IF out.raised = ""
                      THEN [status |-> 1,
                            message |-> "Deleted " \o ToString(Len(chat_ids))
                                        \o " chat history for user " \o user_id]
                      ELSE [error_message |-> out.raised, status |-> 0]
            /\ trace' = [BaseTrace("delete_chat_history", user_id, "")
                           EXCEPT !.raised = out.raised, !.chat_ids = chat_ids]
      /\ UNCHANGED <<state_attrs, pg_kind, last_sql_query, last_chat_id, user_chats>>

-----------------------------------------------------------------------------
(* LLMResponseExtractor over the text of a model output *)

\* A text is a sequence of pieces:
\*   prose      words without braces or fences
\*   obj        {"title": "T1"}
\*   bad        {x}, braces around something that is not JSON
\*   fence_obj  ```json {"other": "o"} ```
\*   fence_bad  ```json {x} ```
\*   arr        [1], JSON that is not an object
SegKinds == {"prose", "obj", "bad", "fence_obj", "fence_bad", "arr"}

Texts == UNION {[1..n -> SegKinds] : n \in 0..MaxSegs}

Fenced(k) == k \in {"fence_obj", "fence_bad"}

HasBrace(k) == k \in {"obj", "bad", "fence_obj", "fence_bad"}

\* the objects the obj and fence_obj pieces spell; a JSON string is a
\* sequence of characters
ObjPayload == [title |-> <<"T", "1">>]
FencePayload == [other |-> <<"o">>]

\* what the braces of a fenced block enclose
FenceBody(k) == IF k = "fence_obj" THEN "obj_other" ELSE "bad"

\* self.data: a dict, a value that is not a dict, or no attribute at all
Unset == [kind |-> "unset", v |-> EmptyDict]
DictData(d) == [kind |-> "dict", v |-> d]
ListData == [kind |-> "list", v |-> EmptyDict]

JSONDecodeError == [raised |-> TRUE, value |-> Unset]
Parsed(x) == [raised |-> FALSE, value |-> x]

\* json.loads of the string the pieces spell
json_loads(pieces) ==
    IF Len(pieces) # 1 THEN JSONDecodeError
    ELSE CASE pieces[1] = "obj" -> Parsed(DictData(ObjPayload))
           [] pieces[1] = "obj_other" -> Parsed(DictData(FencePayload))
           [] pieces[1] = "arr" -> Parsed(ListData)
           [] OTHER -> JSONDecodeError

SetMin(S) == CHOOSE x \in S : \A y \in S : x <= y
SetMax(S) == CHOOSE x \in S : \A y \in S : x >= y

\* extract_json(text): the first regular expression that matches decides
extract_json_text(text) ==
    LET fences == {i \in 1..Len(text) : Fenced(text[i])}
        braces == {i \in 1..Len(text) : HasBrace(text[i])}
    IN IF fences # {}
       THEN json_loads(<<FenceBody(text[SetMin(fences)])>>)
       ELSE IF braces # {}
       THEN json_loads(SubSeq(text, SetMin(braces), SetMax(braces)))
       ELSE json_loads(text)

\* self.data.get(key, default)
extractor_get(d, key, default) ==
    IF d.kind # "dict" THEN [raised |-> TRUE, value |-> None]
    ELSE [raised |-> FALSE, value |-> Get(d.v, key, default)]

-----------------------------------------------------------------------------
(* OracleADBClient: the calls one request makes on its connection *)

ReadOp == "execute_query_df"
WriteOps == {"execute_single_non_query", "execute_multiple_non_query"}

\* the step of a call that fails, if any
ReadFailures == {"none", "connect", "read_sql"}
WriteFailures == {"none", "connect", "cursor", "execute", "commit"}

\* conn = self._get_connection() raised: there is no connection to release
NotConnected ==
    [connected |-> FALSE, events |-> <<>>, raised |-> "ConnectError"]

\* try: df = pd.read_sql(...); return df
ReadBody(fail) ==
    [connected |-> TRUE, events |-> <<"read_sql">>,
     raised |-> IF fail = "read_sql" THEN "DatabaseError" ELSE ""]

\* try: with conn.cursor() as cursor: cursor.execute(...) / executemany(...)
\*      conn.commit()
WriteBody(fail) ==
    LET steps == <<"cursor", "execute", "commit">>
        n == CASE fail = "cursor" -> 1 [] fail = "execute" -> 2 [] OTHER -> 3
    IN [connected |-> TRUE, events |-> SubSeq(steps, 1, n),
        raised |-> IF fail = "none" THEN "" ELSE "DatabaseError"]

\* the failure is raised again without a rollback
ExceptReraise(c, rollback_fails) == c

\* except Exception: conn.rollback(); raise
ExceptRollback(c, rollback_fails) ==
    IF c.raised = "" THEN c
    ELSE [c EXCEPT !.events = Append(@, "rollback"),
                   !.raised = IF rollback_fails THEN "RollbackError" ELSE @]

\* the connection is closed on the way to `return` only
CloseOnReturn(c, close_fails) ==
    IF c.raised # "" THEN c
    ELSE [c EXCEPT !.events = Append(@, "close"),
                   !.raised = IF close_fails THEN "CloseError" ELSE @]

\* finally: conn.close()
FinallyClose(c, close_fails) ==
    [c EXCEPT !.events = Append(@, "close"),
              !.raised = IF close_fails THEN "CloseError" ELSE @]

execute_query_df(fail, close_fails) ==
    IF fail = "connect" THEN NotConnected
    ELSE FinallyClose(ReadBody(fail), close_fails)

\* execute_single_non_query and execute_multiple_non_query differ in
\* cursor.execute / cursor.executemany only
execute_non_query(fail, rollback_fails, close_fails) ==
    IF fail = "connect" THEN NotConnected
    ELSE FinallyClose(ExceptRollback(WriteBody(fail), rollback_fails), close_fails)

-----------------------------------------------------------------------------
(* create_new_chat *)

\* a chat id and a title are sequences of characters
TitleChatIds == { <<"a", "b", "c", "d", "e", "f", "1", "2", "3", "4", "5", "6">>,
                  <<"c", "1">> }

TitleUserIds == {"", "u1"}

TitlePrefixLen == 8

\* the fallback title keeps the whole chat id
FallbackTitleWholeId(chat_id) == <<"C", "h", "a", "t", "_">> \o chat_id

\* f"Chat_{chat_id[:8]}"
FallbackTitle(chat_id) ==
    <<"C", "h", "a", "t", "_">> \o SubSeq(chat_id, 1, Min(TitlePrefixLen, Len(chat_id)))

\* where the preview row insert fails, if it does: "loader" is
\* sql_loader.insert_user_chat, the others are steps of execute_single_non_query
InsertFailures == {"loader"} \cup WriteFailures

-----------------------------------------------------------------------------
(* Construction *)

\* app.state as app/main.py builds it
MainAttrs == {"user_chats", "chat_history", "last_sql_queries"}

\* DummyAppState of tests/test_service_chat.py
DummyAttrs == {"chat_history", "last_chat_id", "last_sql_query"}

\* app.state as the fixture of tests/test_routes_chat.py builds it
RoutesTestAttrs == {"chat_history", "last_sql_query", "last_sql_queries",
                    "last_chat_id", "user_chats"}

\* ChatService.__init__ builds a PromptGenerator; the chat_service fixture of
\* tests/test_service_chat.py patches it with a MagicMock
PromptGeneratorKinds == {"PromptGenerator", "MagicMock"}

\* the durable tables are shared with whatever persisted earlier turns
InitialTables ==
    {[msgs |-> UNION {PersistedChat(c, n[c]) : c \in ChatIds},
      previews |-> {[user_id |-> "u1", chat_id |-> c] : c \in {d \in ChatIds : n[d] > 0}}]
       : n \in [ChatIds -> {MaxDbTurns}]}

\* no component has been called on its own
NoCall == [op |-> ""]

\* the threads of the server's pool that run the chat-inquiry endpoint
Workers == {"w1", "w2"}

\* a worker that has no request yet: pc is the statement it stands before,
\* the other fields are the local variables of handle_inquiry; own_g, own_t
\* and own_e are the records of the model outputs this turn received
IdleTurn ==
    [pc |-> "idle", chat_id |-> "", user_message |-> "", raised |-> "",
     own_g |-> EmptyDict, own_t |-> EmptyDict, own_e |-> EmptyDict,
     relevant |-> "", tables |-> <<>>, prior_sql |-> "", sql_query |-> "",
     scenario |-> "", error_status |-> "", df |-> <<>>, result |-> "",
     message |-> "", final_response |-> EmptyDict]

Init ==
    /\ state_attrs \in {MainAttrs, DummyAttrs, RoutesTestAttrs}
    /\ pg_kind \in PromptGeneratorKinds
    /\ chat_history = EmptyDict
    /\ last_sql_query = EmptyDict
    /\ last_sql_queries = EmptyDict
    /\ last_chat_id = (IF state_attrs = DummyAttrs THEN "" ELSE None)
    /\ user_chats = EmptyDict
    /\ \E db \in InitialTables : CHAT_MESSAGES = db.msgs /\ USER_CHATS = db.previews
    /\ ret = EmptyDict
    /\ trace = BaseTrace("", "", "")
    /\ n_calls = 0
    /\ extractor_data = Unset
    /\ unit = NoCall
    /\ turns = [w \in Workers |-> IdleTurn]

\* one more call is served
Served == n_calls < MaxCalls /\ n_calls' = n_calls + 1 /\ UNCHANGED <<extractor_data, unit, turns>>

Next ==
    \/ Served /\ handle_inquiry
    \/ Served /\ load_chat_history
    \/ Served /\ chat_runtime_cleanup
    \/ Served /\ delete_chat_history

Spec == Init /\ [][Next]_vars

-----------------------------------------------------------------------------
(* The components called on their own: the database client, the response  *)
(* extractor of one service object, and create_new_chat over them.         *)

app_vars == <<state_attrs, pg_kind, chat_history, last_sql_query, last_sql_queries,
              last_chat_id, user_chats, CHAT_MESSAGES, USER_CHATS, ret, trace, n_calls,
              turns>>

ExtractorKeys == {"title", "missing"}

\* the fields and defaults arguments of get_many; no defaults is None
FieldLists == {<<>>, <<"title">>, <<"title", "missing">>}
DefaultsArgs == {[given |-> FALSE, v |-> EmptyDict],
                 [given |-> TRUE, v |-> [missing |-> <<"d">>]]}

\* one call at a time: the caller has taken the result of the previous one
Idle == unit = NoCall

call_execute_query_df ==
    Idle /\
    \E fail \in ReadFailures : \E close_fails \in BOOLEAN : \E df \in ReexecutedFrames :
        LET c == execute_query_df(fail, close_fails) IN
        /\ unit' = [op |-> ReadOp, fail |-> fail, connected |-> c.connected,
                    events |-> c.events, raised |-> c.raised,
                    returned |-> c.raised = "",
                    df |-> IF c.raised = "" THEN df ELSE <<>>]
        /\ UNCHANGED <<app_vars, extractor_data>>

call_execute_non_query ==
    Idle /\
    \E op \in WriteOps : \E fail \in WriteFailures :
    \E rollback_fails \in BOOLEAN : \E close_fails \in BOOLEAN :
        LET c == execute_non_query(fail, rollback_fails, close_fails) IN
        /\ unit' = [op |-> op, fail |-> fail, connected |-> c.connected,
                    events |-> c.events, raised |-> c.raised,
                    returned |-> c.raised = ""]
        /\ UNCHANGED <<app_vars, extractor_data>>

\* LLMResponseExtractor.set_data
set_data ==
    Idle /\
    \E text \in Texts :
        LET r == extract_json_text(text) IN
        /\ extractor_data' = (IF r.raised THEN extractor_data ELSE r.value)
        /\ unit' = [op |-> "set_data", text |-> text, raised |-> r.raised,
                    before |-> extractor_data]
        /\ UNCHANGED app_vars

\* LLMResponseExtractor.get
get ==
    Idle /\
    \E key \in ExtractorKeys : \E default \in {None, "dflt"} :
        LET r == extractor_get(extractor_data, key, default) IN
        /\ unit' = [op |-> "get", key |-> key, default |-> default,
                    raised |-> r.raised, value |-> r.value]
        /\ UNCHANGED <<app_vars, extractor_data>>

\* LLMResponseExtractor.get_many
get_many ==
    Idle /\
    \E fields \in FieldLists : \E defaults \in DefaultsArgs :
        LET defs == IF defaults.given THEN defaults.v ELSE EmptyDict
            rs == [i \in 1..Len(fields) |->
                     extractor_get(extractor_data, fields[i], Get(defs, fields[i], None))]
            failed == \E i \in 1..Len(fields) : rs[i].raised
        IN
        /\ unit' = [op |-> "get_many", fields |-> fields, defaults |-> defaults,
                    raised |-> failed,
                    value |-> IF failed THEN <<>>
                              ELSE [i \in 1..Len(fields) |-> rs[i].value]]
        /\ UNCHANGED <<app_vars, extractor_data>>

create_new_chat ==
    Idle /\
    \E user_id \in TitleUserIds : \E chat_id \in TitleChatIds :
    \E prompt_missing \in BOOLEAN : \E inference_raises \in BOOLEAN :
    \E raw_title \in Texts : \E as_tuple \in BOOLEAN :
    \E insert_fail \in InsertFailures :
        LET args == [op |-> "create_new_chat", user_id |-> user_id, chat_id |-> chat_id,
                     raw_title |-> raw_title, as_tuple |-> as_tuple,
                     prompt_missing |-> prompt_missing,
                     inference_raises |-> inference_raises] IN
        IF prompt_missing \/ inference_raises
        THEN /\ unit' = [raised |-> IF prompt_missing THEN "FileNotFoundError"
                                                       ELSE "LLMInferenceError"] @@ args
             /\ UNCHANGED <<app_vars, extractor_data>>
        ELSE LET r == extract_json_text(raw_title)
                 d == IF r.raised THEN extractor_data ELSE r.value
                 g == extractor_get(d, "title", FallbackTitle(chat_id))
                 title == IF r.raised \/ g.raised THEN FallbackTitle(chat_id) ELSE g.value
                 attempted == user_id # ""
                 db == IF attempted /\ insert_fail # "loader"
                       THEN execute_non_query(insert_fail, FALSE, FALSE).events
                       ELSE <<>>
             IN /\ extractor_data' = d
                /\ unit' = [raised |-> "", parse_failed |-> r.raised \/ g.raised,
                            insert_attempted |-> attempted,
                            insert_failed |-> attempted /\ insert_fail # "none",
                            db |-> db,
                            result |-> [user_id |-> user_id, chat_id |-> chat_id,
                                        title |-> title]] @@ args
                /\ UNCHANGED app_vars

\* the caller takes the result
take_result ==
    /\ ~Idle
    /\ unit' = NoCall
    /\ UNCHANGED <<app_vars, extractor_data>>

UnitInit ==
    /\ state_attrs = MainAttrs
    /\ pg_kind = "PromptGenerator"
    /\ chat_history = EmptyDict
    /\ last_sql_query = EmptyDict
    /\ last_sql_queries = EmptyDict
    /\ last_chat_id = None
    /\ user_chats = EmptyDict
    /\ CHAT_MESSAGES = {}
    /\ USER_CHATS = {}
    /\ ret = EmptyDict
    /\ trace = BaseTrace("", "", "")
    /\ n_calls = 0
    /\ extractor_data = Unset
    /\ unit = NoCall
    /\ turns = [w \in Workers |-> IdleTurn]

UnitNext ==
    \/ call_execute_query_df
    \/ call_execute_non_query
    \/ set_data
    \/ get
    \/ get_many
    \/ create_new_chat
    \/ take_result

UnitSpec == UnitInit /\ [][UnitNext]_vars

-----------------------------------------------------------------------------
(* Two chat-inquiry requests served at the same time.  The endpoint is a   *)
(* plain `def`, so each request runs handle_inquiry on a thread of the     *)
(* pool, on the one ChatService of the router and the one app.state, with  *)
(* no lock.  A step of a worker is a run of statements between two points  *)
(* where the other worker may run; steps are coarser than the interpreter's *)
(* switching, so every interleaving here is one the threads can take.      *)
(* The collaborators answer (no call raises) and the application state is  *)
(* one on which a turn can complete.                                       *)

ConcGuardrailReplies == {r \in GuardrailReplies : r.text \in {"g_yes", "g_no"}}
ConcText2SqlReplies == {r \in Text2SqlReplies : r.text \in {"t_s1", "t_s2_raw", "t_err_int"}}
ConcExplanationReplies == {r \in ExplanationReplies : r.text \in {"e_m1", "e_nomsg"}}
ConcFrames == { <<>>, << <<Num(0)>>, <<Num(7)>> >> }

conc_frame == <<state_attrs, pg_kind, user_chats, CHAT_MESSAGES, USER_CHATS,
                ret, trace, n_calls, unit>>

\* the worker goes on with its local variables changed
Goes(w, t) == turns' = [turns EXCEPT ![w] = t]

\* return final_response
Finished(t, payload, e) ==
    [t EXCEPT !.pc = "done", !.final_response = payload, !.raised = e]

\* an exception reaches the handler of the turn
TurnFails(t, e) ==
    Finished(t, ExceptHandler(InitialResponse(t.chat_id), t.chat_id, e), e)

\* self.llm_response_extractor.get(key, default) of the shared extractor
shared_get(key, default) == extractor_get(extractor_data, key, default).value

\* guard_rail: the model call and set_data
conc_guard_set(w) ==
    /\ turns[w].pc = "idle"
    /\ \E chat_id \in ChatIds : \E user_message \in UserMessages :
       \E r \in ConcGuardrailReplies :
         /\ extractor_data' = DictData(extract_json(r))
         /\ Goes(w, [turns[w] EXCEPT !.pc = "guard_get", !.chat_id = chat_id,
                                     !.user_message = user_message,
                                     !.own_g = extract_json(r)])
    /\ UNCHANGED <<conc_frame, chat_history, last_sql_query, last_sql_queries, last_chat_id>>

\* guard_rail: get_many, and the relevance test of handle_inquiry
conc_guard_get(w) ==
    /\ turns[w].pc = "guard_get"
    /\ LET t == [turns[w] EXCEPT !.relevant = shared_get("relevant_question", "no"),
                                 !.tables = shared_get("tables_related", <<>>)]
       IN IF GuardrailRejects(t.relevant)
          THEN Goes(w, Finished(t, [chat_id |-> t.chat_id,
                 llm_response |-> "Query rejected by guardrail due to irrelevance.",
                 user_query |-> t.user_message, status |-> 2], "JumpToFinally"))
          ELSE Goes(w, [t EXCEPT !.pc = "sql_set"])
    /\ UNCHANGED <<conc_frame, extractor_data, chat_history, last_sql_query,
                   last_sql_queries, last_chat_id>>

\* the prior SQL, the metadata, and text_2_sql: the model call and set_data
conc_sql_set(w) ==
    /\ turns[w].pc = "sql_set"
    /\ LET t == turns[w] IN
       IF prepare_metadata_raises(t.tables)
       THEN Goes(w, TurnFails(t, "FileNotFoundError")) /\ UNCHANGED extractor_data
       ELSE \E r \in ConcText2SqlReplies :
              /\ extractor_data' = DictData(extract_json(r))
              /\ Goes(w, [t EXCEPT !.pc = "sql_get",
                                   !.prior_sql = Get(last_sql_queries, t.chat_id, None),
                                   !.own_t = extract_json(r)])
    /\ UNCHANGED <<conc_frame, chat_history, last_sql_query, last_sql_queries, last_chat_id>>

\* text_2_sql: get_many, and the error test of handle_inquiry
conc_sql_get(w) ==
    /\ turns[w].pc = "sql_get"
    /\ LET t == [turns[w] EXCEPT !.sql_query = shared_get("sql_query", ""),
                                 !.scenario = shared_get("scenario", ""),
                                 !.error_status = shared_get("error_status", "int:0")]
       IN IF SqlGenerationFailed(t.error_status)
          THEN Goes(w, Finished(t, [chat_id |-> t.chat_id,
                 llm_response |-> "Failed to generate query as it extends beyond the scope of Data , Please try with another query.",
                 user_query |-> t.user_message, status |-> 2], "JumpToFinally"))
          ELSE Goes(w, [t EXCEPT !.pc = "execute"])
    /\ UNCHANGED <<conc_frame, extractor_data, chat_history, last_sql_query,
                   last_sql_queries, last_chat_id>>

\* the query, the empty check and "Context management"
conc_execute(w) ==
    /\ turns[w].pc = "execute"
    /\ \E selected_df \in ConcFrames :
         LET t == [turns[w] EXCEPT !.df = selected_df]
             lsq1 == Put(last_sql_query, t.chat_id, t.sql_query)
             ch1 == Put(chat_history, t.chat_id, <<SystemInit>>)
             evicts == TruthyStr(last_chat_id) /\ last_chat_id \in DOMAIN ch1
         IN IF ResultIsEmpty(selected_df)
            THEN /\ Goes(w, Finished(t, NoDataResponse(t.chat_id, t.sql_query),
                                     "JumpToFinally"))
                 /\ UNCHANGED <<chat_history, last_sql_query, last_sql_queries, last_chat_id>>
            ELSE IF last_chat_id = t.chat_id
            THEN /\ Goes(w, [t EXCEPT !.pc = "append"])
                 /\ last_sql_query' = lsq1
                 /\ UNCHANGED <<chat_history, last_sql_queries, last_chat_id>>
            ELSE IF evicts /\ last_chat_id \notin DOMAIN last_sql_queries
            THEN /\ Goes(w, TurnFails(t, "KeyError"))
                 /\ last_sql_query' = lsq1
                 /\ chat_history' = Del(ch1, last_chat_id)
                 /\ UNCHANGED <<last_sql_queries, last_chat_id>>
            ELSE /\ Goes(w, [t EXCEPT !.pc = "append"])
                 /\ last_sql_query' = lsq1
                 /\ chat_history' = (IF evicts THEN Del(ch1, last_chat_id) ELSE ch1)
                 /\ last_sql_queries' = (IF evicts THEN Del(last_sql_queries, last_chat_id)
                                         ELSE last_sql_queries)
                 /\ last_chat_id' = t.chat_id
    /\ UNCHANGED <<conc_frame, extractor_data>>

\* the two appends before the explanation call
conc_append(w) ==
    /\ turns[w].pc = "append"
    /\ LET t == turns[w] IN
       IF t.chat_id \notin DOMAIN chat_history
       THEN Goes(w, TurnFails(t, "KeyError")) /\ UNCHANGED chat_history
       ELSE /\ chat_history' = Put(chat_history, t.chat_id,
                 chat_history[t.chat_id] \o
                   <<[role |-> "User", message |-> t.user_message],
                     [role |-> "Assistant",
                      message |-> generate_assistant_prompt(t.sql_query, t.df)]>>)
            /\ Goes(w, [t EXCEPT !.pc = "infer"])
    /\ UNCHANGED <<conc_frame, extractor_data, last_sql_query, last_sql_queries, last_chat_id>>

\* result = inference_from_chat_history(chat_history[chat_id])
conc_infer(w) ==
    /\ turns[w].pc = "infer"
    /\ LET t == turns[w] IN
       IF t.chat_id \notin DOMAIN chat_history
       THEN Goes(w, TurnFails(t, "KeyError"))
       ELSE \E r \in ConcExplanationReplies :
              Goes(w, [t EXCEPT !.pc = "pop", !.result = r.text,
                                !.own_e = extract_json(r)])
    /\ UNCHANGED <<conc_frame, extractor_data, chat_history, last_sql_query,
                   last_sql_queries, last_chat_id>>

\* pop(), append of the model output, and set_data(result)
conc_pop(w) ==
    /\ turns[w].pc = "pop"
    /\ LET t == turns[w] IN
       IF t.chat_id \notin DOMAIN chat_history
       THEN Goes(w, TurnFails(t, "KeyError")) /\ UNCHANGED <<chat_history, extractor_data>>
       ELSE /\ chat_history' = Put(chat_history, t.chat_id,
                                   ReplaceTransient(chat_history[t.chat_id], t.result))
            /\ extractor_data' = DictData(t.own_e)
            /\ Goes(w, [t EXCEPT !.pc = "explain_get"])
    /\ UNCHANGED <<conc_frame, last_sql_query, last_sql_queries, last_chat_id>>

\* get_many of the explanation, and "Result Modification"
conc_explain_get(w) ==
    /\ turns[w].pc = "explain_get"
    /\ LET t == [turns[w] EXCEPT !.message = shared_get("message", "")]
       IN Goes(w, Finished(t,
            IF t.scenario = "raw_data"
            THEN prepare_raw_data_response(t.df, t.scenario, t.sql_query, t.message)
            ELSE prepare_analysis_response(t.df, t.scenario, t.sql_query, t.message), ""))
    /\ UNCHANGED <<conc_frame, extractor_data, chat_history, last_sql_query,
                   last_sql_queries, last_chat_id>>

ConcInit ==
    /\ state_attrs = RoutesTestAttrs
    /\ pg_kind = "MagicMock"
    /\ chat_history = EmptyDict
    /\ last_sql_query = EmptyDict
    /\ last_sql_queries = EmptyDict
    /\ last_chat_id = None
    /\ user_chats = EmptyDict
    /\ CHAT_MESSAGES = {}
    /\ USER_CHATS = {}
    /\ ret = EmptyDict
    /\ trace = BaseTrace("", "", "")
    /\ n_calls = 0
    /\ extractor_data = Unset
    /\ unit = NoCall
    /\ turns = [w \in Workers |-> IdleTurn]

ConcNext ==
    \E w \in Workers :
        \/ conc_guard_set(w)
        \/ conc_guard_get(w)
        \/ conc_sql_set(w)
        \/ conc_sql_get(w)
        \/ conc_execute(w)
        \/ conc_append(w)
        \/ conc_infer(w)
        \/ conc_pop(w)
        \/ conc_explain_get(w)

ConcSpec == ConcInit /\ [][ConcNext]_vars

-----------------------------------------------------------------------------
(* Properties *)

IsTurn(t) == t.op = "handle_inquiry"

\* exceptions that come from a collaborator (model, database, storage, files)
CollaboratorFailures == {"InferenceError", "JSONDecodeError", "FileNotFoundError",
                         "DatabaseError", "UploadError"}

\* the turn left the try block through a real exception
TurnRaised(t) == IsTurn(t) /\ t.raised \notin {"", "JumpToFinally"}

LogOf(ch, chat_id) == IF chat_id \in DOMAIN ch THEN ch[chat_id] ELSE <<>>

\* C1: a turn whose guardrail flag is not exactly "yes" (a missing flag counts
\* as "no") returns status 2, calls nothing after the guardrail (no SQL
\* generation, no execution) and writes neither the durable tables nor the
\* in-memory history.
C1_GuardrailRejection ==
    [][(IsTurn(trace') /\ trace'.relevant \notin {"", "yes"}) =>
          /\ ret'.status = 2
          /\ trace'.calls = <<"guardrail">>
          /\ CHAT_MESSAGES' = CHAT_MESSAGES
          /\ USER_CHATS' = USER_CHATS
          /\ chat_history' = chat_history]_vars

C1_Witness ==
    IsTurn(trace) /\ trace.relevant = "Yes" /\ ret.status = 2

\* C2: a turn that passes the guardrail and whose SQL generation returns the
\* error flag 1 returns status 2 and never calls the query execution client.
C2_SqlGenerationError ==
    (IsTurn(trace) /\ trace.relevant = "yes" /\ trace.error_status = "int:1") =>
        /\ ret.status = 2
        /\ \A i \in 1..Len(trace.calls) : trace.calls[i] # "execute"

C2_Witness ==
    IsTurn(trace) /\ trace.error_status = "int:1" /\ ret.status = 2

\* C3: a turn that reaches the empty check returns status 3 exactly when the
\* result set has no rows or every cell of it is null or zero.
C3_EmptyCheck ==
    (IsTurn(trace) /\ trace.executed) =>
        (ret.status = 3 <=>
            \/ Len(trace.df) = 0
            \/ \A i \in 1..Len(trace.df) : \A j \in 1..Len(trace.df[i]) :
                 trace.df[i][j].isna \/ trace.df[i][j].v = 0)

C3_Witness ==
    /\ IsTurn(trace) /\ trace.executed
    /\ trace.df = << <<NaN>>, <<Num(0)>> >>
    /\ ret.status = 3

\* C4: guardrail "yes", SQL generation without error, a result set with a
\* non-null non-zero cell and no failing collaborator call give status 1
\* with the result rows, the generated SQL and the extracted message.
C4_HappyPath ==
    (/\ IsTurn(trace) /\ trace.relevant = "yes"
     /\ trace.executed /\ ~ResultIsEmpty(trace.df)
     /\ trace.raised \notin CollaboratorFailures) =>
        /\ ret.status = 1
        /\ ret.results_df = trace.df
        /\ ret.sql_query = trace.sql_query
        /\ ret.llm_response = trace.message

\* C5: handle_inquiry always returns a payload; when a stage raises, the
\* payload has status 0 and carries the chat id of the turn.
C5_NoExceptionEscapes ==
    IsTurn(trace) =>
        /\ "status" \in DOMAIN ret
        /\ TurnRaised(trace) =>
              /\ ret.status = 0
              /\ "chat_id" \in DOMAIN ret
              /\ ret.chat_id = trace.chat_id

C5_Witness ==
    /\ IsTurn(trace) /\ trace.raised = "DatabaseError"
    /\ ret.status = 0 /\ ret.chat_id = trace.chat_id

\* the text s contains the error text e
ContainsErrorText(s, e) == \E prefix \in {"", "Failed due to error "} : s = prefix \o e

\* C6: the status-0 payload of a turn that raised contains the text of the
\* error.
C6_ErrorTextSurfaced ==
    (TurnRaised(trace) /\ ret.status = 0) =>
        ContainsErrorText(ret.llm_response, trace.raised)

\* C7: a turn that fails after appending the user message and the transient
\* explanation request leaves the chat's in-memory log as it was before.
C7_FailedTurnRolledBack ==
    [][(IsTurn(trace') /\ trace'.appended /\ ret'.status = 0) =>
          LogOf(chat_history', trace'.chat_id) = LogOf(chat_history, trace'.chat_id)]_vars

\* C8: every in-memory log is non-empty, starts with the system-init message
\* and holds no other system-init message.
C8_LogStartsWithSystemInit ==
    \A c \in DOMAIN chat_history :
        /\ Len(chat_history[c]) >= 1
        /\ chat_history[c][1] = SystemInit
        /\ \A i \in 2..Len(chat_history[c]) : chat_history[c][i] # SystemInit

C8_Witness ==
    /\ \E c \in DOMAIN chat_history : trace.op = "load_chat_history" /\ Len(chat_history[c]) > 1
    /\ \E c \in DOMAIN chat_history : Len(chat_history[c]) = 1

MaxMessageNo(table, chat_id) ==
    IF RowsOf(table, chat_id) = {} THEN -1
    ELSE CHOOSE n \in {r.message_no : r \in RowsOf(table, chat_id)} :
            \A r \in RowsOf(table, chat_id) : r.message_no <= n

\* C9: a status-1 turn inserts exactly three rows for its chat (user message,
\* model explanation, SQL artifact) numbered consecutively from 0 or max+1;
\* any other turn inserts no row.
C9_ThreeRowsPerTurn ==
    [][IsTurn(trace') =>
          IF ret'.status = 1
          THEN LET c == trace'.chat_id
                   first == MaxMessageNo(CHAT_MESSAGES, c) + 1
                   new == CHAT_MESSAGES' \ CHAT_MESSAGES
               IN /\ CHAT_MESSAGES \subseteq CHAT_MESSAGES'
                  /\ Cardinality(new) = 3
                  /\ \E u, m, q \in new :
                       /\ u.chat_id = c /\ u.message_no = first
                       /\ u.message = trace'.user_message
                       /\ m.chat_id = c /\ m.message_no = first + 1
                       /\ q.chat_id = c /\ q.message_no = first + 2
                       /\ q.role = "SQL" /\ q.message = trace'.sql_query
          ELSE CHAT_MESSAGES' = CHAT_MESSAGES]_vars

\* C10: message numbers of a chat grow strictly with every insertion and none
\* is used twice: after a turn that persists, the chat's new rows are
\* numbered from N + 1 on, N being the largest number persisted before.
C10_SequenceNumbersAdvance ==
    [][(IsTurn(trace') /\ ret'.status = 1) =>
          LET c == trace'.chat_id
              N == MaxMessageNo(CHAT_MESSAGES, c)
              new == RowsOf(CHAT_MESSAGES', c) \ RowsOf(CHAT_MESSAGES, c)
          IN /\ \E r \in new : r.message_no = N + 1
             /\ \A r \in new : r.message_no > N
             /\ \A r, q \in RowsOf(CHAT_MESSAGES', c) :
                  r.message_no = q.message_no => r = q]_vars

\* the handler op answered its last call without raising
Answered(t, op) == t.op = op /\ t.raised = ""

\* C11: a load_chat_history that follows a status-1 turn on the same chat
\* returns a front-end view that holds, in order, the user message of the
\* turn, the model's explanation and the SQL artifact with the rows of its
\* re-execution in place of the SQL text.
C11_TurnThenLoadRoundTrip ==
    [][(/\ IsTurn(trace) /\ ret.status = 1
        /\ Answered(trace', "load_chat_history")
        /\ trace'.chat_id = trace.chat_id
        /\ ret'.status = 1) =>
          LET view == ret'.system_response IN
          \E i \in 1..(Len(view) - 2) :
             /\ view[i].role = "User" /\ view[i].message = trace.user_message
             /\ view[i + 1].role = "System"
             /\ view[i + 2].role = "SQL" /\ view[i + 2].records \in ReexecutedFrames]_vars

\* the previous chat of a turn that switches chats: the active chat before
\* the turn, when it is another chat that holds a log
SwitchesFrom(prev, ch, chat_id) == prev # chat_id /\ TruthyStr(prev) /\ prev \in DOMAIN ch

\* C12: a turn on another chat than the active one, in which no collaborator
\* fails, removes the log and the last-SQL entry of the previously active
\* chat, leaves a log for the new chat, makes the new chat the active one and
\* returns status 1.
C12_SwitchEvictsPreviousChat ==
    [][(/\ IsTurn(trace') /\ trace'.executed /\ ~ResultIsEmpty(trace'.df)
        /\ trace'.raised \notin CollaboratorFailures
        /\ SwitchesFrom(last_chat_id, chat_history, trace'.chat_id)) =>
          /\ last_chat_id \notin DOMAIN chat_history'
          /\ last_chat_id \notin DOMAIN last_sql_query'
          /\ trace'.chat_id \in DOMAIN chat_history'
          /\ last_chat_id' = trace'.chat_id
          /\ ret'.status = 1]_vars

\* C13: the in-memory chat_history of the single user never holds the logs of
\* two different chats at the same time.
C13_OneHydratedChat ==
    Cardinality(DOMAIN chat_history) <= 1

\* the messages of a chat's earlier turns, as its durable rows hold them
EarlierMessages(table, chat_id) ==
    {[role |-> r.role, message |-> r.message] :
        r \in {q \in RowsOf(table, chat_id) : q.role # "SQL"}}

\* C14: a turn on a chat that has durable history and is not the active chat
\* sends the explanation model a message list that holds the chat's earlier
\* messages ahead of the new user message.
C14_HistoryKeptOnReturn ==
    [][(/\ IsTurn(trace') /\ trace'.sent # <<>>
        /\ last_chat_id # trace'.chat_id
        /\ RowsOf(CHAT_MESSAGES, trace'.chat_id) # {}) =>
          LET sent == trace'.sent IN
          \A m \in EarlierMessages(CHAT_MESSAGES, trace'.chat_id) :
             \E i \in 1..(Len(sent) - 2) : sent[i] = m]_vars

\* the chat has a preview row of the user in the durable preview list
KnownChat(previews, user_id, chat_id) ==
    \E p \in previews : p.user_id = user_id /\ p.chat_id = chat_id

\* C15: a turn that reaches the history reconciliation for a chat unknown to
\* the user starts the chat's log from the system-init message alone, has a
\* title persisted for the chat and records the chat as the user's active
\* chat.
C15_UnknownChatCreated ==
    [][(/\ IsTurn(trace') /\ trace'.executed /\ ~ResultIsEmpty(trace'.df)
        /\ trace'.raised \notin CollaboratorFailures
        /\ \A u \in UserIds : ~KnownChat(USER_CHATS, u, trace'.chat_id)) =>
          /\ trace'.chat_id \in DOMAIN chat_history'
          /\ chat_history'[trace'.chat_id][1] = SystemInit
          /\ \E u \in UserIds :
               /\ KnownChat(USER_CHATS', u, trace'.chat_id)
               /\ u \in DOMAIN user_chats'
               /\ user_chats'[u] = <<trace'.chat_id>>]_vars

\* the SQL of the chat's durable SQL artifact with the highest number, or None
LatestDurableSql(table, chat_id) ==
    LET sql_rows == {r \in RowsOf(table, chat_id) : r.role = "SQL"}
    IN IF sql_rows = {} THEN None
       ELSE (CHOOSE r \in sql_rows : \A q \in sql_rows : q.message_no <= r.message_no).message

\* C16: the prior SQL given to SQL generation for a chat is the last-SQL value
\* held in memory when the chat is hydrated with one, and the chat's most
\* recent durable SQL artifact otherwise; it is None only when there is none
\* in either place.
C16_PriorSqlResolution ==
    [][(IsTurn(trace') /\ trace'.prior_sql # "") =>
          LET c == trace'.chat_id
              in_memory == IF c \in DOMAIN chat_history /\ c \in DOMAIN last_sql_queries
                           THEN last_sql_queries[c] ELSE None
          IN trace'.prior_sql = IF in_memory # None THEN in_memory
                                ELSE LatestDurableSql(CHAT_MESSAGES, c)]_vars

\* C17: load_chat_history on a chat without durable rows leaves chat_history,
\* both last-SQL maps, last_chat_id and user_chats as they were, and, when
\* the history query itself does not fail, returns the not-found payload: no
\* front-end view, no error message, status 0 and a message of its own.
C17_LoadNotFound ==
    [][(/\ trace'.op = "load_chat_history"
        /\ RowsOf(CHAT_MESSAGES, trace'.chat_id) = {}) =>
          /\ chat_history' = chat_history
          /\ last_sql_queries' = last_sql_queries
          /\ last_sql_query' = last_sql_query
          /\ last_chat_id' = last_chat_id
          /\ user_chats' = user_chats
          /\ trace'.raised = "" =>
               /\ ret'.status = 0
               /\ ret'.chat_id = trace'.chat_id
               /\ "systen_message" \in DOMAIN ret'
               /\ "system_response" \notin DOMAIN ret'
               /\ "error_message" \notin DOMAIN ret']_vars

C17_Witness ==
    /\ Answered(trace, "load_chat_history")
    /\ RowsOf(CHAT_MESSAGES, trace.chat_id) = {}
    /\ "systen_message" \in DOMAIN ret
    /\ chat_history # EmptyDict

C20_PayloadShapes ==
    IsTurn(trace) =>
        /\ "status" \in DOMAIN ret
        /\ ret.status \in {0, 1, 2, 3}
        /\ ret.status = 2 =>
             /\ {"chat_id", "llm_response", "user_query"} \subseteq DOMAIN ret
             /\ "sql_query" \notin DOMAIN ret
        /\ ret.status = 3 =>
             /\ {"chat_id", "sql_query", "llm_response"} \subseteq DOMAIN ret
             /\ ret.chat_id = trace.chat_id
             /\ ret.sql_query = trace.sql_query
             /\ ret.llm_response = "No data found for following search"

C20_Witness ==
    /\ IsTurn(trace) /\ ret.status = 3
    /\ trace.sql_query = "s2" /\ ret.sql_query = "s2"

\* C21: the results_df of every status-1 payload holds at most 10 row
\* records, the first 10 rows of the executed result set, in the raw-data
\* shape and in the analysis shape alike.
C21_AtMostTenRows ==
    (IsTurn(trace) /\ ret.status = 1) =>
        /\ Len(ret.results_df) <= 10
        /\ ret.results_df = SubSeq(trace.df, 1, Len(ret.results_df))
        /\ Len(ret.results_df) = Min(10, Len(trace.df))

\* the order in which a turn calls its collaborators
StageOrder == <<"guardrail", "text2sql", "execute", "explain">>

Called(t, stage) == \E i \in 1..Len(t.calls) : t.calls[i] = stage

\* C22: the collaborator calls of a turn are an initial part of guardrail,
\* SQL generation, execution, explanation, each made at most once; SQL
\* generation is called only after the guardrail answered "yes", execution
\* only after SQL generation answered without the error flag 1, the explanation
\* only after the execution returned a result set that is not empty.
C22_StagesInOrder ==
    IsTurn(trace) =>
        /\ Len(trace.calls) <= Len(StageOrder)
        /\ trace.calls = SubSeq(StageOrder, 1, Len(trace.calls))
        /\ Called(trace, "text2sql") => trace.relevant = "yes"
        /\ Called(trace, "execute") =>
              trace.error_status \notin {"", "int:1", "str:1"}
        /\ Called(trace, "explain") =>
              /\ trace.executed
              /\ \E i \in 1..Len(trace.df) : \E j \in 1..Len(trace.df[i]) :
                    ~trace.df[i][j].isna /\ trace.df[i][j].v # 0
        /\ ret.status = 2 => ~Called(trace, "execute")
        /\ ret.status = 3 => ~Called(trace, "explain")

C22_Witness ==
    IsTurn(trace) /\ trace.calls = StageOrder /\ ret.status = 1

\* Python truth of an error flag that SQL generation returned
TruthyFlag(error_status) == error_status \notin {"", "int:0", "str:"}

\* C28: whatever truthy error flag SQL generation returns, the turn returns
\* the out-of-scope status-2 payload and does not execute the SQL.
C28_TruthyFlagShortCircuits ==
    (IsTurn(trace) /\ TruthyFlag(trace.error_status)) =>
        /\ ret.status = 2
        /\ ret.user_query = trace.user_message
        /\ ~Called(trace, "execute")

\* C29: after a status-1 turn on a chat that generated the SQL q, the next
\* turn on the same chat, with nothing in between, passes q to SQL generation
\* as the prior SQL.
C29_PriorSqlIsPreviousTurns ==
    [][(/\ IsTurn(trace) /\ ret.status = 1
        /\ IsTurn(trace') /\ trace'.chat_id = trace.chat_id
        /\ Called(trace', "text2sql"))
       => trace'.prior_sql = trace.sql_query]_vars

\* the raw explanation responses whose "message" field is m
RawResponses(m) ==
    {r.text : r \in {x \in ExplanationReplies :
                        /\ ~x.raises /\ ~extract_json_raises(x)
                        /\ Get(extract_json(x), "message", "") = m}}

\* C30: a status-1 turn on the chat that is already the active hydrated chat
\* extends that chat's log by exactly the user's message and a model-output
\* entry with the raw explanation response; the earlier entries are unchanged
\* and the transient explanation request is not left in the log.
C30_ActiveChatLogGrowsByTwo ==
    [][\A c \in ChatIds :
        (/\ last_chat_id = c /\ c \in DOMAIN chat_history
         /\ IsTurn(trace') /\ trace'.chat_id = c /\ ret'.status = 1)
        => /\ c \in DOMAIN chat_history'
           /\ \E raw \in RawResponses(trace'.message) :
                chat_history'[c] = chat_history[c] \o
                    <<[role |-> "User", message |-> trace'.user_message],
                      [role |-> "System", message |-> raw]>>]_vars

C30_Witness ==
    /\ IsTurn(trace) /\ ret.status = 1 /\ n_calls > 1
    /\ last_chat_id = trace.chat_id
    /\ trace.chat_id \in DOMAIN chat_history
    /\ Len(chat_history[trace.chat_id]) >= 5

-----------------------------------------------------------------------------
(* Properties of the components *)

AdbOps == {ReadOp} \cup WriteOps

\* how often a call was made on the connection
Count(events, e) == Cardinality({i \in 1..Len(events) : events[i] = e})

\* C23: every call of execute_query_df, execute_single_non_query or
\* execute_multiple_non_query that obtained a connection closes it exactly
\* once, as the last thing it does, whether it returns or raises.
C23_ConnectionClosedOnce ==
    (unit.op \in AdbOps /\ unit.connected) =>
        /\ Count(unit.events, "close") = 1
        /\ unit.events[Len(unit.events)] = "close"

C23_Witness ==
    /\ unit.op \in WriteOps /\ unit.connected
    /\ unit.fail = "execute" /\ unit.raised # ""
    /\ Count(unit.events, "close") = 1

\* the statement of a write did not fail
StatementSucceeded(u) == u.fail \in {"none", "commit"}

\* a failing read raises and returns nothing
FailingReadRaises ==
    (unit.op = ReadOp /\ unit.fail # "none") => (unit.raised # "" /\ ~unit.returned)

\* C24 as stated: a write ends either with the statement succeeding, one
\* commit and no rollback, or with the statement failing, one rollback, no
\* commit and the failure raised; a failing read raises and returns nothing.
C24_CommitOrRollback ==
    /\ unit.op \in WriteOps =>
          \/ /\ StatementSucceeded(unit)
             /\ Count(unit.events, "commit") = 1
             /\ Count(unit.events, "rollback") = 0
          \/ /\ ~StatementSucceeded(unit)
             /\ Count(unit.events, "rollback") = 1
             /\ Count(unit.events, "commit") = 0
             /\ unit.raised # ""
    /\ FailingReadRaises

\* C24 amended: a write that obtained its connection ends either with the
\* statement and the commit succeeding (one commit, no rollback), or with the
\* statement or the commit failing (one rollback, the failure raised, and a
\* commit call only when the commit is what failed); a write that obtained
\* no connection raises with neither; a failing read raises and returns
\* nothing.
C24_CommitOrRollbackWhenConnected ==
    /\ (unit.op \in WriteOps /\ unit.connected) =>
          \/ /\ unit.fail = "none"
             /\ Count(unit.events, "commit") = 1
             /\ Count(unit.events, "rollback") = 0
          \/ /\ unit.fail # "none"
             /\ Count(unit.events, "rollback") = 1
             /\ Count(unit.events, "commit") = (IF unit.fail = "commit" THEN 1 ELSE 0)
             /\ unit.raised # ""
    /\ (unit.op \in WriteOps /\ ~unit.connected) =>
          /\ unit.raised # ""
          /\ Count(unit.events, "commit") = 0
          /\ Count(unit.events, "rollback") = 0
    /\ FailingReadRaises

C24_Witness ==
    /\ unit.op \in WriteOps /\ unit.connected /\ unit.fail = "commit"
    /\ Count(unit.events, "rollback") = 1

\* C25: set_data takes the first of a valid fenced object, a valid
\* brace-delimited object and the whole text as JSON, and raises only when
\* there is none of them.
C25_ThreeStrategies ==
    unit.op = "set_data" =>
        LET t == unit.text
            fenced == \E i \in 1..Len(t) : t[i] = "fence_obj"
            braced == \E i \in 1..Len(t) : t[i] = "obj"
            whole == t = <<"arr">>
        IN /\ unit.raised <=> ~(fenced \/ braced \/ whole)
           /\ ~unit.raised =>
                extractor_data = (IF fenced THEN DictData(FencePayload)
                                  ELSE IF braced THEN DictData(ObjPayload)
                                  ELSE ListData)

\* C26: get and get_many never raise, whatever set_data did or did not do
\* before; a key that is missing yields the default, or None without one.
C26_GetNeverRaises ==
    /\ unit.op = "get" =>
          /\ ~unit.raised
          /\ unit.value = (IF extractor_data.kind = "dict"
                           THEN Get(extractor_data.v, unit.key, unit.default)
                           ELSE unit.default)
    /\ unit.op = "get_many" =>
          /\ ~unit.raised
          /\ Len(unit.value) = Len(unit.fields)

-----------------------------------------------------------------------------
(* Properties of the turn, continued *)

\* the shared in-memory state of the application
Memory == <<chat_history, last_sql_query, last_sql_queries, last_chat_id, user_chats>>

\* the guardrail accepted the question and named a table without metadata
NamesUnknownTable(t) ==
    /\ IsTurn(t) /\ t.relevant = "yes"
    /\ \E i \in 1..Len(t.tables) : t.tables[i] \notin MetadataTables

\* C31: when the guardrail names a table that has no metadata record, the
\* turn returns status 0, calls neither SQL generation nor the database, and
\* changes no in-memory state.
C31_UnknownTableFailsTurn ==
    [][NamesUnknownTable(trace') =>
          /\ ret'.status = 0
          /\ ~Called(trace', "text2sql")
          /\ ~Called(trace', "execute")
          /\ UNCHANGED Memory]_vars

C31_Witness ==
    NamesUnknownTable(trace) /\ trace.raised = "FileNotFoundError" /\ ret.status = 0

\* the last-SQL entries of a chat in the two maps; "" when there is none
LastSqlOf(lsq, lsqs, chat_id) == <<Get(lsq, chat_id, ""), Get(lsqs, chat_id, "")>>

\* C32: a turn changes the last-SQL entry of its chat only when it returns
\* status 1; a turn that executed its SQL with a non-empty result and then
\* fails with status 0 leaves the entry as it was.
C32_LastSqlOnlyOnSuccess ==
    [][(IsTurn(trace') /\ ret'.status # 1) =>
          LastSqlOf(last_sql_query', last_sql_queries', trace'.chat_id)
            = LastSqlOf(last_sql_query, last_sql_queries, trace'.chat_id)]_vars

\* C33: a turn that short-circuits, with status 2 from the guardrail or from
\* SQL generation or with status 3 from the empty check, leaves chat_history,
\* both last-SQL maps, the active-chat pointer and user_chats unchanged.
C33_ShortCircuitChangesNothing ==
    [][(IsTurn(trace') /\ ret'.status \in {2, 3}) => UNCHANGED Memory]_vars

C33_Witness ==
    /\ IsTurn(trace) /\ ret.status = 3 /\ trace.executed
    /\ chat_history # EmptyDict /\ last_chat_id # trace.chat_id

\* C34: the chats that have an in-memory log are the chats that have an entry
\* in last_sql_queries, the map the turn reads its prior SQL from and that
\* eviction and deletion delete from, so that no paired deletion meets a
\* missing key.
C34_LogsPairedWithLastSql ==
    {"chat_history", "last_sql_queries"} \subseteq state_attrs =>
        /\ DOMAIN chat_history = DOMAIN last_sql_queries
        /\ IsTurn(trace) => trace.raised # "KeyError"

\* C35: whenever the active-chat pointer names a chat, that chat has an
\* in-memory log, so that a turn on the active chat after a cleanup or a
\* deletion finds or re-creates the log.
PointerHasLog(lcid, ch) == TruthyStr(lcid) => lcid \in DOMAIN ch

Removes(op) == op \in {"chat_runtime_cleanup", "delete_chat_history"}

C35_ActiveChatHasLog ==
    [][/\ (Removes(trace'.op) /\ PointerHasLog(last_chat_id, chat_history))
            => PointerHasLog(last_chat_id', chat_history')
       /\ (/\ IsTurn(trace') /\ Removes(trace.op)
           /\ last_chat_id = trace'.chat_id
           /\ trace'.executed /\ ~ResultIsEmpty(trace'.df)
           /\ trace'.raised \notin CollaboratorFailures \cup {"TypeError"})
            => /\ ret'.status = 1
               /\ LogOf(chat_history', trace'.chat_id)[1] = SystemInit]_vars

IsCleanup(t) == t.op = "chat_runtime_cleanup"

\* the payload of a cleanup for a user without recorded chats
NoChatsInState(user_id) ==
    [status |-> 0, message |-> "No chat history found for user " \o user_id \o " in state"]

\* C36: after a cleanup with status 1 no chat recorded for the user has a log
\* or a last-SQL entry and the user has no recorded chats; a second cleanup for
\* the user returns the status-0 "No chat history found" payload and changes
\* no map; a cleanup for a user without recorded chats changes no map.
C36_CleanupIsIdempotent ==
    [][/\ (IsCleanup(trace') /\ ret'.status = 1) =>
            /\ \A i \in 1..Len(user_chats[trace'.user_id]) :
                 LET c == user_chats[trace'.user_id][i] IN
                   /\ c \notin DOMAIN chat_history'
                   /\ c \notin DOMAIN last_sql_query'
            /\ trace'.user_id \notin DOMAIN user_chats'
       /\ (/\ IsCleanup(trace) /\ ret.status = 1
           /\ IsCleanup(trace') /\ trace'.user_id = trace.user_id) =>
            /\ ret' = NoChatsInState(trace'.user_id)
            /\ UNCHANGED Memory
       /\ (IsCleanup(trace') /\ trace'.user_id \notin DOMAIN user_chats) =>
            UNCHANGED Memory]_vars

IsDelete(t) == t.op = "delete_chat_history"

\* the durable rows of a chat are gone
DurablyDeleted(msgs, previews, chat_id) ==
    RowsOf(msgs, chat_id) = {} /\ RowsOf(previews, chat_id) = {}

\* C37: when no DELETE statement fails, delete_chat_history returns status 1
\* and removes the message rows and the preview row of every listed chat,
\* whether or not the chat has an in-memory log; it never returns status 0
\* with the rows of some listed chats deleted and those of others left.
C37_DeleteAllOrNothing ==
    [][IsDelete(trace') =>
          LET ids == {trace'.chat_ids[i] : i \in 1..Len(trace'.chat_ids)}
              gone == {c \in ids : /\ ~DurablyDeleted(CHAT_MESSAGES, USER_CHATS, c)
                                   /\ DurablyDeleted(CHAT_MESSAGES', USER_CHATS', c)}
              left == {c \in ids : ~DurablyDeleted(CHAT_MESSAGES', USER_CHATS', c)}
          IN /\ trace'.raised # "DatabaseError" => (ret'.status = 1 /\ left = {})
             /\ ret'.status = 0 => (gone = {} \/ left = {})]_vars

-----------------------------------------------------------------------------
(* Properties of concurrent turns *)

\* what the turn of worker w took from the shared extractor are the fields
\* of the model outputs this turn received
ReadsOwnRecord(w) ==
    LET t == turns[w] IN
    /\ (t.own_g # EmptyDict /\ t.pc # "guard_get") =>
          /\ t.relevant = Get(t.own_g, "relevant_question", "no")
          /\ t.tables = Get(t.own_g, "tables_related", <<>>)
    /\ (t.own_t # EmptyDict /\ t.pc # "sql_get") =>
          /\ t.sql_query = Get(t.own_t, "sql_query", "")
          /\ t.scenario = Get(t.own_t, "scenario", "")
          /\ t.error_status = Get(t.own_t, "error_status", "int:0")
    /\ (t.own_e # EmptyDict /\ t.pc = "done" /\ t.raised = "") =>
          t.message = Get(t.own_e, "message", "")

\* the turn of worker w has returned status 1
ReturnedOne(w) ==
    /\ turns[w].pc = "done"
    /\ "status" \in DOMAIN turns[w].final_response
    /\ turns[w].final_response.status = 1

\* the user-message / model-output pair of the turn of worker w
PairOf(w) ==
    <<[role |-> "User", message |-> turns[w].user_message],
      [role |-> "System", message |-> turns[w].result]>>

\* C38: when two turns on the same chat have both returned status 1, however
\* their steps interleaved, the chat's log holds no transient
\* explanation-request message and holds the user-message / model-output pair
\* of both turns (here even for turns that read their own model outputs).
C38_ConcurrentPopsOwnTransient ==
    (/\ ReturnedOne("w1") /\ ReturnedOne("w2")
     /\ ReadsOwnRecord("w1") /\ ReadsOwnRecord("w2")
     /\ turns["w1"].chat_id = turns["w2"].chat_id) =>
        LET c == turns["w1"].chat_id IN
        /\ c \in DOMAIN chat_history
        /\ \A i \in 2..Len(chat_history[c]) : chat_history[c][i].role # "Assistant"
        /\ chat_history[c] \in {<<SystemInit>> \o PairOf("w1") \o PairOf("w2"),
                                <<SystemInit>> \o PairOf("w2") \o PairOf("w1")}

\* C39: each turn's guardrail verdict and tables, generated SQL, scenario and
\* error flag, and explanation message are the fields of the model output
\* that this turn received, whatever the other turn stored in the shared
\* extractor in between.
C39_TurnReadsOwnRecord == \A w \in Workers : ReadsOwnRecord(w)
====
